---- MODULE Spec2Model ----
(***************************************************************************)
(* Model of CartesianTree.py: a treap (ordered set of unique values) whose *)
(* facade operations are all composed from __Node.split and __Node.merge.  *)
(*                                                                         *)
(* A node is the record [value, left, right, priority, size]; an absent    *)
(* child / empty root is None.  Nodes are owned by exactly one parent, so  *)
(* the in-place re-linking of the code is modelled by rebuilding records.  *)
(* The cached size field is kept exactly as the code keeps it (written     *)
(* only by __init__ and __recalc) and is what sizeof / get_kth_node read.  *)
(* An exception is modelled by the field "raised" of an operation result.  *)
(***************************************************************************)
EXTENDS Integers, Sequences, FiniteSets, TLC

\* ---- bounds ----
MaxValue == 3        \* values handled by the operations are 1..MaxValue
MaxPriority == 2     \* priorities drawn by the random source are 0..MaxPriority
MaxInitLen == 2      \* longest sequence passed to the constructor
MaxParts == 3        \* most subtrees passed to one __Node.merge call
MaxLen == 4          \* longest array given to TreeRangeQuery / SparseTableRangeQuery
MaxItem == 1         \* array items are 0..MaxItem
MaxDim == 2          \* most dimensions of a MultidimensionalFenwickSumTree table
MaxSide == 4         \* longest side of such a table
MaxCells == 4        \* most elements of such a table
MaxScalar == 1       \* its elements are 0..MaxScalar

Values == 1..MaxValue
Priorities == 0..MaxPriority
Indices == (0 - (MaxValue + 1))..(MaxValue + 1)

None == [isNone |-> TRUE]
NoValue == 0         \* placeholder in results that carry no value

\* ---- class __Node ----

\* __Node.__init__: priority p is the number drawn from the random source
Node(value, p) ==
    [value |-> value, left |-> None, right |-> None, priority |-> p, size |-> 1]

sizeof(node) == IF node # None THEN node.size ELSE 0

recalc(node) == [node EXCEPT !.size = sizeof(node.left) + 1 + sizeof(node.right)]

\* split with the first comparison written <=: the node equal to the pivot
\* stays in the low part
RECURSIVE split_leq(_, _)
split_leq(node, value) ==
    IF node = None THEN <<None, None, None>>
    ELSE IF node.value <= value THEN
        LET s == split_leq(node.right, value)
        IN  <<recalc([node EXCEPT !.right = s[1]]), s[2], s[3]>>
    ELSE
        LET s == split_leq(node.left, value)
        IN  <<s[1], s[2], recalc([node EXCEPT !.left = s[3]])>>

\* split without the size recomputation of the node equal to the pivot
RECURSIVE split_noRecalcCenter(_, _)
split_noRecalcCenter(node, value) ==
    IF node = None THEN <<None, None, None>>
    ELSE IF node.value < value THEN
        LET s == split_noRecalcCenter(node.right, value)
        IN  <<recalc([node EXCEPT !.right = s[1]]), s[2], s[3]>>
    ELSE IF node.value = value THEN
        <<node.left, [node EXCEPT !.left = None, !.right = None], node.right>>
    ELSE
        LET s == split_noRecalcCenter(node.left, value)
        IN  <<s[1], s[2], recalc([node EXCEPT !.left = s[3]])>>

\* split leaving the children attached to the node equal to the pivot
RECURSIVE split_keepChildren(_, _)
split_keepChildren(node, value) ==
    IF node = None THEN <<None, None, None>>
    ELSE IF node.value < value THEN
        LET s == split_keepChildren(node.right, value)
        IN  <<recalc([node EXCEPT !.right = s[1]]), s[2], s[3]>>
    ELSE IF node.value = value THEN
        <<node.left, recalc(node), node.right>>
    ELSE
        LET s == split_keepChildren(node.left, value)
        IN  <<s[1], s[2], recalc([node EXCEPT !.left = s[3]])>>

RECURSIVE split(_, _)
split(node, value) ==
    IF node = None THEN <<None, None, None>>
    ELSE IF node.value < value THEN
        LET s == split(node.right, value)
        IN  <<recalc([node EXCEPT !.right = s[1]]), s[2], s[3]>>
    ELSE IF node.value = value THEN
        <<node.left, recalc([node EXCEPT !.left = None, !.right = None]), node.right>>
    ELSE
        LET s == split(node.left, value)
        IN  <<s[1], s[2], recalc([node EXCEPT !.left = s[3]])>>

\* merge without the size recomputation when the right root wins
RECURSIVE merge2_noRecalc(_, _)
merge2_noRecalc(left, right) ==
    IF left = None THEN right
    ELSE IF right = None THEN left
    ELSE IF left.priority > right.priority THEN
        recalc([left EXCEPT !.right = merge2_noRecalc(left.right, right)])
    ELSE
        [right EXCEPT !.left = merge2_noRecalc(left, right.left)]

\* merge handing the subtrees to the recursive call in the wrong order
RECURSIVE merge2_swapped(_, _)
merge2_swapped(left, right) ==
    IF left = None THEN right
    ELSE IF right = None THEN left
    ELSE IF left.priority > right.priority THEN
        recalc([left EXCEPT !.right = merge2_swapped(right, left.right)])
    ELSE
        recalc([right EXCEPT !.left = merge2_swapped(right.left, left)])

\* merge making the root of lower priority the new root
RECURSIVE merge2_lowerWins(_, _)
merge2_lowerWins(left, right) ==
    IF left = None THEN right
    ELSE IF right = None THEN left
    ELSE IF left.priority < right.priority THEN
        recalc([left EXCEPT !.right = merge2_lowerWins(left.right, right)])
    ELSE
        recalc([right EXCEPT !.left = merge2_lowerWins(left, right.left)])

\* merge keeping the left root as the new root on equal priorities
RECURSIVE merge2_tieLeft(_, _)
merge2_tieLeft(left, right) ==
    IF left = None THEN right
    ELSE IF right = None THEN left
    ELSE IF left.priority >= right.priority THEN
        recalc([left EXCEPT !.right = merge2_tieLeft(left.right, right)])
    ELSE
        recalc([right EXCEPT !.left = merge2_tieLeft(left, right.left)])

\* merge resolving equal priorities in favour of the larger tree
RECURSIVE merge2_tieBySize(_, _)
merge2_tieBySize(left, right) ==
    IF left = None THEN right
    ELSE IF right = None THEN left
    ELSE IF \/ left.priority > right.priority
            \/ (left.priority = right.priority /\ left.size > right.size) THEN
        recalc([left EXCEPT !.right = merge2_tieBySize(left.right, right)])
    ELSE
        recalc([right EXCEPT !.left = merge2_tieBySize(left, right.left)])

\* the two-argument case of __Node.merge
RECURSIVE merge2(_, _)
merge2(left, right) ==
    IF left = None THEN right
    ELSE IF right = None THEN left
    ELSE IF left.priority > right.priority THEN
        recalc([left EXCEPT !.right = merge2(left.right, right)])
    ELSE
        recalc([right EXCEPT !.left = merge2(left, right.left)])

\* merge of more than two subtrees forgetting the third and later ones
RECURSIVE merge_firstTwo(_)
merge_firstTwo(subtrees) ==
    IF Len(subtrees) = 1 THEN subtrees[1]
    ELSE IF Len(subtrees) > 2 THEN merge_firstTwo(SubSeq(subtrees, 1, 2))
    ELSE merge2(subtrees[1], subtrees[2])

\* __Node.merge(*subtrees); subtrees is a non-empty sequence
RECURSIVE merge(_)
merge(subtrees) ==
    IF Len(subtrees) = 1 THEN subtrees[1]
    ELSE IF Len(subtrees) > 2 THEN
        merge(<<merge(SubSeq(subtrees, 1, 2))>> \o SubSeq(subtrees, 3, Len(subtrees)))
    ELSE merge2(subtrees[1], subtrees[2])

\* get_kth_node descending to the right without discounting the current node
RECURSIVE get_kth_node_offByOne(_, _)
get_kth_node_offByOne(self, k0) ==
    IF self = None THEN [raised |-> "AttributeError", node |-> None]
    ELSE
        LET k == IF k0 < 0 THEN self.size + k0 ELSE k0
            left_size == sizeof(self.left)
        IN  IF ~(0 <= k /\ k < self.size) THEN [raised |-> "IndexError", node |-> None]
            ELSE IF left_size = k THEN [raised |-> "none", node |-> self]
            ELSE IF left_size > k THEN get_kth_node_offByOne(self.left, k)
            ELSE get_kth_node_offByOne(self.right, k - left_size)

\* __Node.get_kth_node: the result is [raised, node]; calling it on an absent
\* child is the AttributeError Python raises for None.get_kth_node
RECURSIVE get_kth_node(_, _)
get_kth_node(self, k0) ==
    IF self = None THEN [raised |-> "AttributeError", node |-> None]
    ELSE
        LET k == IF k0 < 0 THEN self.size + k0 ELSE k0
            left_size == sizeof(self.left)
        IN  IF ~(0 <= k /\ k < self.size) THEN [raised |-> "IndexError", node |-> None]
            ELSE IF left_size = k THEN [raised |-> "none", node |-> self]
            ELSE IF left_size > k THEN get_kth_node(self.left, k)
            ELSE get_kth_node(self.right, k - left_size - 1)

\* ---- class CartesianTree (facade); each result carries the new __root ----

\* __contains__ merging back only the low and the high part
contains_dropCenter(root, value) ==
    LET s == split(root, value)
    IN  [root |-> merge(<<s[1], s[3]>>), retval |-> (s[2] # None)]

\* __contains__ merging back only the low part and the center
contains_dropHigh(root, value) ==
    LET s == split(root, value)
    IN  [root |-> merge(<<s[1], s[2]>>), retval |-> (s[2] # None)]

\* __contains__ merging back a fresh node in place of the one found
contains_freshCenter(root, value) ==
    LET s == split(root, value)
        center == IF s[2] = None THEN None ELSE Node(value, 0)
    IN  [root |-> merge(<<s[1], center, s[3]>>), retval |-> (s[2] # None)]

contains(root, value) ==
    LET s == split(root, value)
    IN  [root |-> merge(<<s[1], s[2], s[3]>>), retval |-> (s[2] # None)]

\* add without the membership test
add_always(root, value, p) ==
    LET s == split(root, value)
    IN  [root |-> merge(<<s[1], Node(value, p), s[3]>>), created |-> 1]

\* p is the priority the random source yields if a node is created
add(root, value, p) ==
    LET c == contains(root, value)
    IN  IF ~c.retval THEN
            LET s == split(c.root, value)
            IN  [root |-> merge(<<s[1], Node(value, p), s[3]>>), created |-> 1]
        ELSE [root |-> c.root, created |-> 0]

\* remove without the membership test: an absent value is silently accepted
remove_noRaise(root, value) ==
    LET s == split(contains(root, value).root, value)
    IN  [root |-> merge(<<s[1], s[3]>>), raised |-> "none"]

remove(root, value) ==
    LET c == contains(root, value)
    IN  IF ~c.retval THEN [root |-> c.root, raised |-> "ValueError"]
        ELSE LET s == split(c.root, value)
             IN  [root |-> merge(<<s[1], s[3]>>), raised |-> "none"]

\* discard without the except clause
discard_propagates(root, value) == remove(root, value)

discard(root, value) ==
    LET r == remove(root, value)
    IN  IF r.raised = "ValueError" THEN [root |-> r.root, raised |-> "none"]
        ELSE r

len(root) == sizeof(root)

\* __getitem__ without the test for an empty tree
getitem_noEmptyCheck(root, index) ==
    LET g == get_kth_node(root, index)
    IN  IF g.raised # "none" THEN [raised |-> g.raised, retval |-> NoValue]
        ELSE [raised |-> "none", retval |-> g.node.value]

\* index is an integer here, so the isinstance test never raises TypeError
getitem(root, index) ==
    IF root = None THEN [raised |-> "IndexError", retval |-> NoValue]
    ELSE LET g == get_kth_node(root, index)
         IN  IF g.raised # "none" THEN [raised |-> g.raised, retval |-> NoValue]
             ELSE [raised |-> "none", retval |-> g.node.value]

\* next reading rank -1 of the high part
next_lastOfHigh(root, value) ==
    LET s == split(root, value)
        merged == merge(<<s[1], s[2], s[3]>>)
    IN  IF sizeof(s[3]) = 0 THEN [root |-> merged, raised |-> "ValueError", retval |-> NoValue]
        ELSE LET g == get_kth_node(s[3], 0 - 1)
             IN  IF g.raised # "none" THEN [root |-> merged, raised |-> g.raised, retval |-> NoValue]
                 ELSE [root |-> merged, raised |-> "none", retval |-> g.node.value]

\* next merging back (left, right) only, as remove does
next_dropCenter(root, value) ==
    LET s == split(root, value)
        merged == merge(<<s[1], s[3]>>)
    IN  IF sizeof(s[3]) = 0 THEN [root |-> merged, raised |-> "ValueError", retval |-> NoValue]
        ELSE LET g == get_kth_node(s[3], 0)
             IN  IF g.raised # "none" THEN [root |-> merged, raised |-> g.raised, retval |-> NoValue]
                 ELSE [root |-> merged, raised |-> "none", retval |-> g.node.value]

next(root, value) ==
    LET s == split(root, value)
        merged == merge(<<s[1], s[2], s[3]>>)      \* the finally clause
    IN  IF sizeof(s[3]) = 0 THEN [root |-> merged, raised |-> "ValueError", retval |-> NoValue]
        ELSE LET g == get_kth_node(s[3], 0)
             IN  IF g.raised # "none" THEN [root |-> merged, raised |-> g.raised, retval |-> NoValue]
                 ELSE [root |-> merged, raised |-> "none", retval |-> g.node.value]

\* prev reading rank 0 of the low part
prev_firstOfLow(root, value) ==
    LET s == split(root, value)
        merged == merge(<<s[1], s[2], s[3]>>)
    IN  IF sizeof(s[1]) = 0 THEN [root |-> merged, raised |-> "ValueError", retval |-> NoValue]
        ELSE LET g == get_kth_node(s[1], 0)
             IN  IF g.raised # "none" THEN [root |-> merged, raised |-> g.raised, retval |-> NoValue]
                 ELSE [root |-> merged, raised |-> "none", retval |-> g.node.value]

\* prev merging back only the low and the high part
prev_dropCenter(root, value) ==
    LET s == split(root, value)
        merged == merge(<<s[1], s[3]>>)
    IN  IF sizeof(s[1]) = 0 THEN [root |-> merged, raised |-> "ValueError", retval |-> NoValue]
        ELSE LET g == get_kth_node(s[1], 0 - 1)
             IN  IF g.raised # "none" THEN [root |-> merged, raised |-> g.raised, retval |-> NoValue]
                 ELSE [root |-> merged, raised |-> "none", retval |-> g.node.value]

prev(root, value) ==
    LET s == split(root, value)
        merged == merge(<<s[1], s[2], s[3]>>)      \* the finally clause
    IN  IF sizeof(s[1]) = 0 THEN [root |-> merged, raised |-> "ValueError", retval |-> NoValue]
        ELSE LET g == get_kth_node(s[1], 0 - 1)
             IN  IF g.raised # "none" THEN [root |-> merged, raised |-> g.raised, retval |-> NoValue]
                 ELSE [root |-> merged, raised |-> "none", retval |-> g.node.value]

\* list(tree), as __repr__ uses it: the sequence protocol reads tree[0],
\* tree[1], ... until IndexError
RECURSIVE listFrom(_, _)
listFrom(root, i) ==
    LET g == getitem(root, i)
    IN  IF g.raised # "none" THEN <<>>
        ELSE <<g.retval>> \o listFrom(root, i + 1)

list(root) == listFrom(root, 0)

\* CartesianTree.__init__(values): add every value in turn; prios[i] is the
\* number the random source yields if values[i] creates a node
RECURSIVE construct(_, _, _)
construct(root, values, prios) ==
    IF values = <<>> THEN root
    ELSE construct(add(root, Head(values), Head(prios)).root, Tail(values), Tail(prios))

\* ---- integer bit operations ----

RECURSIVE BitAnd(_, _)
BitAnd(x, y) ==
    IF x = 0 \/ y = 0 THEN 0
    ELSE 2 * BitAnd(x \div 2, y \div 2) + (IF x % 2 = 1 /\ y % 2 = 1 THEN 1 ELSE 0)

RECURSIVE BitOr(_, _)
BitOr(x, y) ==
    IF x = 0 THEN y
    ELSE IF y = 0 THEN x
    ELSE 2 * BitOr(x \div 2, y \div 2) + (IF x % 2 = 1 \/ y % 2 = 1 THEN 1 ELSE 0)

\* ---- operations passed to the range-query classes ----

\* A list cell holds an item (a natural number) or Python's None.  Applying
\* int.__add__ or min to None raises TypeError: TypeErr stands for that
\* exception travelling up through the enclosing expressions.
NoneCell == 0 - 1
TypeErr == 0 - 2

Items == 0..MaxItem

\* int.__add__, min, max, and the projection lambda x, y: x (associative and
\* idempotent, not commutative)
apply(op, x, y) ==
    IF x = TypeErr \/ y = TypeErr THEN TypeErr
    ELSE IF op = "first" THEN x
    ELSE IF x = NoneCell \/ y = NoneCell THEN TypeErr
    ELSE IF op = "add" THEN x + y
    ELSE IF op = "max" THEN (IF x >= y THEN x ELSE y)
    ELSE IF x <= y THEN x ELSE y

\* a Python list read at index i (0-based); the index is in range where used
At(a, i) == a[i + 1]

Nones(n) == [i \in 1..n |-> NoneCell]

\* ---- class TreeRangeQuery ----

\* the while loop of __init__: the least power of two >= actual_length
RECURSIVE pow2_from(_, _)
pow2_from(pow2_length, actual_length) ==
    IF pow2_length < actual_length THEN pow2_from(pow2_length * 2, actual_length)
    ELSE pow2_length

\* the for loop of __init__, from node i down to node 0
RECURSIVE trq_build(_, _, _)
trq_build(a, op, i) ==
    IF i < 0 THEN a
    ELSE LET a1 == IF At(a, 2 * i + 2) # NoneCell
                   THEN [a EXCEPT ![i + 1] = apply(op, At(a, 2 * i + 1), At(a, 2 * i + 2))]
                   ELSE IF At(a, 2 * i + 1) # NoneCell
                   THEN [a EXCEPT ![i + 1] = At(a, 2 * i + 1)]
                   ELSE a
         IN  trq_build(a1, op, i - 1)

\* TreeRangeQuery.__init__(iterable, operation), iterable non-empty
trq_init(iterable, operation) ==
    LET actual_length == Len(iterable)
        pow2_length == pow2_from(1, actual_length)
        a == Nones(pow2_length - 1) \o iterable \o Nones(pow2_length - actual_length)
    IN  [a |-> trq_build(a, operation, pow2_length - 2), op |-> operation,
         actual_length |-> actual_length, pow2_length |-> pow2_length]

\* TreeRangeQuery.__getitem__ for an integer index.  A negative index reads
\* self.a[index], which counts from the end of the whole list.
trq_getitem(self, index) ==
    IF index < 0 THEN
        IF ~(0 - index <= self.actual_length)
        THEN [raised |-> "AssertionError", retval |-> NoneCell]
        ELSE [raised |-> "none", retval |-> At(self.a, Len(self.a) + index)]
    ELSE
        IF ~(index < self.actual_length)
        THEN [raised |-> "AssertionError", retval |-> NoneCell]
        ELSE [raised |-> "none", retval |-> At(self.a, index + self.pow2_length - 1)]

\* __setitem__ with `if` for `while`: only the parent of the leaf is recomputed
trq_update_onlyParent(a, op, index0) ==
    IF ~(index0 > 0) THEN [a |-> a, raised |-> "none"]
    ELSE LET index == (index0 - 1) \div 2
             x == IF At(a, 2 * index + 2) # NoneCell
                  THEN apply(op, At(a, 2 * index + 1), At(a, 2 * index + 2))
                  ELSE At(a, 2 * index + 1)
         IN  IF x = TypeErr THEN [a |-> a, raised |-> "TypeError"]
             ELSE [a |-> [a EXCEPT ![index + 1] = x], raised |-> "none"]

\* the while loop of __setitem__; an exception of the operation leaves the
\* ancestors above it as they were
RECURSIVE trq_update(_, _, _)
trq_update(a, op, index0) ==
    IF ~(index0 > 0) THEN [a |-> a, raised |-> "none"]
    ELSE LET index == (index0 - 1) \div 2
             x == IF At(a, 2 * index + 2) # NoneCell
                  THEN apply(op, At(a, 2 * index + 1), At(a, 2 * index + 2))
                  ELSE At(a, 2 * index + 1)
         IN  IF x = TypeErr THEN [a |-> a, raised |-> "TypeError"]
             ELSE trq_update([a EXCEPT ![index + 1] = x], op, index)

\* TreeRangeQuery.__setitem__ for an integer index; the result carries the
\* new self.a
trq_setitem(self, index0, value) ==
    IF index0 < 0 /\ ~(0 - index0 <= self.actual_length)
    THEN [a |-> self.a, raised |-> "AssertionError"]
    ELSE IF index0 >= 0 /\ ~(index0 < self.actual_length)
    THEN [a |-> self.a, raised |-> "AssertionError"]
    ELSE LET index1 == IF index0 < 0 THEN self.pow2_length - index0 ELSE index0
             index == index1 + self.pow2_length - 1
         IN  IF ~(index < Len(self.a)) THEN [a |-> self.a, raised |-> "IndexError"]
             ELSE trq_update([self.a EXCEPT ![index + 1] = value], self.op, index)

RECURSIVE trq_query_recursion(_, _, _, _, _, _)
trq_query_recursion(self, query_left, query_right, index, actual_left, actual_right) ==
    IF query_left <= actual_left /\ actual_right <= query_right THEN At(self.a, index)
    ELSE LET mid == (actual_left + actual_right) \div 2
         IN  IF query_right <= mid THEN
                 trq_query_recursion(self, query_left, query_right, 2 * index + 1, actual_left, mid)
             ELSE IF mid <= query_left THEN
                 trq_query_recursion(self, query_left, query_right, 2 * index + 2, mid, actual_right)
             ELSE
                 apply(self.op,
                       trq_query_recursion(self, query_left, query_right, 2 * index + 1, actual_left, mid),
                       trq_query_recursion(self, query_left, query_right, 2 * index + 2, mid, actual_right))

\* TreeRangeQuery.query; the callers here keep 0 <= query_left and
\* query_right <= actual_length
trq_query(self, query_left, query_right) ==
    IF ~(query_left < query_right) THEN [raised |-> "AssertionError", retval |-> NoneCell]
    ELSE LET x == trq_query_recursion(self, query_left, query_right, 0, 0, self.pow2_length)
         IN  IF x = TypeErr THEN [raised |-> "TypeError", retval |-> NoneCell]
             ELSE [raised |-> "none", retval |-> x]

\* ---- class SparseTableRangeQuery ----
\* The object is [op, actual_length, pow2_length, level, leftmost_bit, table];
\* every list is a sequence read with At (0-based).

\* the first while loop of __init__: num_levels
RECURSIVE num_levels_from(_, _, _)
num_levels_from(pow2_length, num_levels, actual_length) ==
    IF pow2_length < actual_length
    THEN num_levels_from(pow2_length * 2, num_levels + 1, actual_length)
    ELSE num_levels

RECURSIVE Pow2(_)
Pow2(e) == IF e = 0 THEN 1 ELSE 2 * Pow2(e - 1)

\* the loop filling self.level and self.leftmost_bit, from i on
RECURSIVE sparse_levels(_, _, _, _, _, _)
sparse_levels(i, actual_length, tmp_level0, tmp_leftmost_bit0, level, leftmost_bit) ==
    IF i > actual_length THEN [level |-> level, leftmost_bit |-> leftmost_bit]
    ELSE LET isPow == BitAnd(i, i - 1) = 0
             tmp_level == IF isPow THEN tmp_level0 + 1 ELSE tmp_level0
             tmp_leftmost_bit == IF isPow THEN Pow2(tmp_level) ELSE tmp_leftmost_bit0
         IN  sparse_levels(i + 1, actual_length, tmp_level, tmp_leftmost_bit,
                           Append(level, tmp_level), Append(leftmost_bit, tmp_leftmost_bit))

\* the inner while loop of __init__: row i of the table from column j on
RECURSIVE sparse_row(_, _, _, _, _, _)
sparse_row(op, prev_row, pow2, actual_length, j, row) ==
    IF ~(j + pow2 <= actual_length) THEN row
    ELSE sparse_row(op, prev_row, pow2, actual_length, j + 1,
                    Append(row, apply(op, At(prev_row, j), At(prev_row, j + pow2 \div 2))))

\* the outer for loop of __init__, from level i on
RECURSIVE sparse_table(_, _, _, _, _, _)
sparse_table(op, table, pow2_0, i, num_levels, actual_length) ==
    IF i > num_levels THEN table
    ELSE LET pow2 == pow2_0 * 2
         IN  sparse_table(op,
                          Append(table, sparse_row(op, At(table, i - 1), pow2, actual_length, 0, <<>>)),
                          pow2, i + 1, num_levels, actual_length)

\* query without the second, right-aligned block
sparse_query_leftBlockOnly(self, query_left, query_right) ==
    IF ~(query_left < query_right) THEN [raised |-> "AssertionError", retval |-> NoneCell]
    ELSE LET diff == query_right - query_left
             level == At(self.level, diff)
         IN  [raised |-> "none", retval |-> At(At(self.table, level), query_left)]

\* SparseTableRangeQuery.__init__(iterable, operation), iterable non-empty
sparse_init(iterable, operation) ==
    LET actual_length == Len(iterable)
        lv == sparse_levels(1, actual_length, 0 - 1, 0, <<NoneCell>>, <<NoneCell>>)
    IN  [op |-> operation,
         actual_length |-> actual_length,
         pow2_length |-> pow2_from(1, actual_length),
         level |-> lv.level,
         leftmost_bit |-> lv.leftmost_bit,
         table |-> sparse_table(operation, <<iterable>>, 1, 1,
                                num_levels_from(1, 0, actual_length), actual_length)]

\* SparseTableRangeQuery.__getitem__ for 0 <= index < actual_length
sparse_getitem(self, index) == At(At(self.table, 0), index)

\* SparseTableRangeQuery.query; the callers here keep 0 <= query_left and
\* query_right <= actual_length
sparse_query(self, query_left, query_right) ==
    IF ~(query_left < query_right) THEN [raised |-> "AssertionError", retval |-> NoneCell]
    ELSE LET diff == query_right - query_left
             level == At(self.level, diff)
             x == apply(self.op, At(At(self.table, level), query_left),
                        At(At(self.table, level), query_right - At(self.leftmost_bit, diff)))
         IN  IF x = TypeErr THEN [raised |-> "TypeError", retval |-> NoneCell]
             ELSE [raised |-> "none", retval |-> x]

\* ---- class MultidimensionalFenwickSumTree ----
\* The object is [length, dim, sum, table]; table and sum are nested lists
\* (sequences of sequences ... of integers), scalar_type is int.

\* slice(start, stop) and the two kinds of subscript
Slice(start, stop) == [start |-> start, stop |-> stop]
IntIndex(i) == [isInt |-> TRUE, i |-> i, start |-> 0, stop |-> 0]
SliceIndex(start, stop) == [isInt |-> FALSE, i |-> 0, start |-> start, stop |-> stop]

\* t[idx[1]][idx[2]]... for 0-based integers idx
RECURSIVE GetCell(_, _)
GetCell(t, idx) ==
    IF idx = <<>> THEN t ELSE GetCell(t[idx[1] + 1], Tail(idx))

\* t[idx[1]][idx[2]]... = v
RECURSIVE SetCell(_, _, _)
SetCell(t, idx, v) ==
    IF idx = <<>> THEN v
    ELSE [t EXCEPT ![idx[1] + 1] = SetCell(t[idx[1] + 1], Tail(idx), v)]

\* nested lists of scalar_type() with the given side lengths
RECURSIVE Zeros(_)
Zeros(length) ==
    IF Len(length) = 1 THEN [i \in 1..length[1] |-> 0]
    ELSE [i \in 1..length[1] |-> Zeros(Tail(length))]

\* SliceView.__fenwick_rec_update: the while loop from k on; the result is
\* the updated subtable
RECURSIVE fenwick_rec_update(_, _, _, _, _, _)
fenwick_rec_update(self, indices, difference, level, subtable, k) ==
    IF ~(k < self.length[level + 1]) THEN subtable
    ELSE LET cell == IF level + 1 = self.dim THEN subtable[k + 1] + difference
                     ELSE fenwick_rec_update(self, indices, difference, level + 1,
                                             subtable[k + 1], indices[level + 2].start)
         IN  fenwick_rec_update(self, indices, difference, level,
                                [subtable EXCEPT ![k + 1] = cell], BitOr(k, k + 1))

ViewResult(kind, raised, value, indices, self) ==
    [kind |-> kind, raised |-> raised, value |-> value, indices |-> indices, self |-> self]

\* SliceView.__getitem__(index, value) of the view with the given indices;
\* hasValue is `value is not None`.  The result is a scalar, a new view, the
\* object after an assignment, or an exception.
view_getitem(self, view_indices, index0, hasValue, value) ==
    LET level == Len(view_indices)
    IN  IF ~(level < self.dim) THEN ViewResult("raise", "AssertionError", 0, <<>>, self)
        ELSE
        LET i == IF index0.isInt /\ index0.i < 0 THEN index0.i + self.length[level + 1]
                 ELSE index0.i
            index == IF index0.isInt THEN Slice(i, i + 1) ELSE Slice(index0.start, index0.stop)
        IN  IF \/ ~(0 <= index.start /\ index.start < self.length[level + 1])
               \/ ~(index.start < index.stop /\ index.stop <= self.length[level + 1])
            THEN ViewResult("raise", "IndexError", 0, <<>>, self)
            ELSE
            LET indices == Append(view_indices, index)
                starts == [j \in 1..Len(indices) |-> indices[j].start]
            IN  IF /\ level + 1 = self.dim
                   /\ \A j \in 1..Len(indices) : indices[j].start + 1 = indices[j].stop
                THEN IF ~hasValue
                     THEN ViewResult("scalar", "none", GetCell(self.table, starts), <<>>, self)
                     ELSE LET difference == value - GetCell(self.table, starts)
                          IN  ViewResult("assigned", "none", 0, <<>>,
                                  [self EXCEPT
                                      !.table = SetCell(self.table, starts, value),
                                      !.sum = fenwick_rec_update(self, indices, difference, 0,
                                                                 self.sum, indices[1].start)])
                ELSE IF ~hasValue THEN ViewResult("view", "none", 0, indices, self)
                     ELSE ViewResult("raise", "IndexError", 0, <<>>, self)

\* SliceView.__rec_prefix_sum: the while loop from k down; the result is what
\* it adds to res[0]
RECURSIVE rec_prefix_sum(_, _, _, _, _)
rec_prefix_sum(self, indices, level, subtable, k) ==
    IF ~(k >= 0) THEN 0
    ELSE (IF level + 1 = self.dim THEN subtable[k + 1]
          ELSE rec_prefix_sum(self, indices, level + 1, subtable[k + 1], indices[level + 2] - 1))
         + rec_prefix_sum(self, indices, level, subtable, BitAnd(k, k + 1) - 1)

prefix_sum(self, indices) ==
    rec_prefix_sum(self, indices, 0, self.sum, indices[1] - 1)

\* SliceView.__rec_sum: what it adds to res[0]
RECURSIVE rec_sum(_, _, _, _, _)
rec_sum(self, view_indices, indices, parity, level) ==
    IF level = self.dim THEN parity * prefix_sum(self, indices)
    ELSE rec_sum(self, view_indices, Append(indices, view_indices[level + 1].start),
                 0 - parity, level + 1)
         + rec_sum(self, view_indices, Append(indices, view_indices[level + 1].stop),
                   parity, level + 1)

\* SliceView.sum(); a view with fewer than dim indices fails on
\* self.indices[level]
view_sum(self, view_indices) ==
    IF Len(view_indices) < self.dim THEN [raised |-> "IndexError", retval |-> 0]
    ELSE [raised |-> "none", retval |-> rec_sum(self, view_indices, <<>>, 1, 0)]

\* mfst[idxs[1]][idxs[2]]...: MultidimensionalFenwickSumTree.__getitem__ and
\* then __getitem__ of what each subscript returned; subscripting a scalar
\* is the TypeError of int
RECURSIVE subscript_chain(_, _, _)
subscript_chain(self, cur, idxs) ==
    IF idxs = <<>> \/ cur.kind = "raise" THEN cur
    ELSE IF cur.kind = "scalar" THEN ViewResult("raise", "TypeError", 0, <<>>, self)
    ELSE subscript_chain(self, view_getitem(self, cur.indices, Head(idxs), FALSE, 0), Tail(idxs))

mfst_getitem(self, idxs) ==
    LET r == subscript_chain(self, ViewResult("view", "none", 0, <<>>, self), idxs)
    IN  r

\* mfst[idxs[1]]...[idxs[n]].sum(); a scalar has no attribute sum
mfst_range_sum(self, idxs) ==
    LET r == mfst_getitem(self, idxs)
    IN  IF r.kind = "raise" THEN [raised |-> r.raised, retval |-> 0]
        ELSE IF r.kind = "scalar" THEN [raised |-> "AttributeError", retval |-> 0]
        ELSE view_sum(self, r.indices)

\* mfst[idxs[1]]...[idxs[n]] = value: __getitem__ for all subscripts but the
\* last, __setitem__ for the last; the result carries the object
mfst_setitem(self, idxs, value) ==
    LET r == mfst_getitem(self, SubSeq(idxs, 1, Len(idxs) - 1))
    IN  IF r.kind = "raise" THEN [self |-> self, raised |-> r.raised]
        ELSE IF r.kind = "scalar" THEN [self |-> self, raised |-> "TypeError"]
        ELSE LET w == view_getitem(self, r.indices, idxs[Len(idxs)], TRUE, value)
             IN  [self |-> w.self, raised |-> w.raised]

\* the index tuples of a table with the given side lengths, in the order
\* recursive_construction visits them
RECURSIVE CellsInOrder(_)
CellsInOrder(length) ==
    IF length = <<>> THEN << <<>> >>
    ELSE LET rest == CellsInOrder(Tail(length))
             row(i) == [j \in 1..Len(rest) |-> <<i>> \o rest[j]]
             RECURSIVE rows(_)
             rows(i) == IF i = length[1] THEN <<>> ELSE row(i) \o rows(i + 1)
         IN  rows(0)

\* recursive_construction: assign every element of table to its cell
RECURSIVE recursive_construction(_, _, _)
recursive_construction(self, table, cells) ==
    IF cells = <<>> THEN self
    ELSE LET idx == Head(cells)
             view_indices == [j \in 1..(Len(idx) - 1) |-> Slice(idx[j], idx[j] + 1)]
             w == view_getitem(self, view_indices,
                               SliceIndex(idx[Len(idx)], idx[Len(idx)] + 1),
                               TRUE, GetCell(table, idx))
         IN  recursive_construction(w.self, table, Tail(cells))

\* MultidimensionalFenwickSumTree.__init__(table) for a well-formed non-empty
\* table whose side lengths are length
mfst_init(table, length) ==
    recursive_construction(
        [length |-> length, dim |-> Len(length), sum |-> Zeros(length), table |-> Zeros(length)],
        table, CellsInOrder(length))

\* ---- state ----
VARIABLE root         \* CartesianTree.__root
VARIABLE last         \* the last facade call: operation, argument and outcome
VARIABLE present      \* history: values added and not removed since
VARIABLE everRemoved  \* history: some remove/discard call has deleted a value
VARIABLE parts        \* trees handed to / returned by __Node.split and __Node.merge
VARIABLE trq          \* a TreeRangeQuery object
VARIABLE sparse       \* a SparseTableRangeQuery object
VARIABLE mfst         \* a MultidimensionalFenwickSumTree object
VARIABLE ref          \* history: the items the array object under test should hold

vars == <<root, last, present, everRemoved, parts, trq, sparse, mfst, ref>>

\* the classes do not share state: while one of them is exercised the
\* variables of the others stay as below
NoTreap == root = None /\ present = {} /\ everRemoved = FALSE
NoParts == parts = <<>>
NoTrq == trq = None
NoSparse == sparse = None
NoMfst == mfst = None
NoRef == ref = <<>>

SeqsUpTo(S, n) == UNION {[1..m -> S] : m \in 0..n}

Range(f) == {f[i] : i \in DOMAIN f}

Call(op, arg, raised, retval, created) ==
    [op |-> op, arg |-> arg, raised |-> raised, retval |-> retval, created |-> created]

Init ==
    \E values \in SeqsUpTo(Values, MaxInitLen) :
        \E prios \in [1..Len(values) -> Priorities] :
            /\ root = construct(None, values, prios)
            /\ last = Call("init", NoValue, "none", NoValue, 0)
            /\ present = Range(values)
            /\ everRemoved = FALSE
            /\ NoParts /\ NoTrq /\ NoSparse /\ NoMfst /\ NoRef

Add ==
    \E value \in Values, p \in Priorities :
        LET r == add(root, value, p)
        IN  /\ root' = r.root
            /\ last' = Call("add", value, "none", NoValue, r.created)
            /\ present' = present \cup {value}
            /\ UNCHANGED <<everRemoved, parts, trq, sparse, mfst, ref>>

Contains ==
    \E value \in Values :
        LET r == contains(root, value)
        IN  /\ root' = r.root
            /\ last' = Call("contains", value, "none", r.retval, 0)
            /\ UNCHANGED <<present, everRemoved, parts, trq, sparse, mfst, ref>>

Remove ==
    \E value \in Values :
        LET r == remove(root, value)
        IN  /\ root' = r.root
            /\ last' = Call("remove", value, r.raised, NoValue, 0)
            /\ present' = present \ {value}
            /\ everRemoved' = (everRemoved \/ value \in present)
            /\ UNCHANGED <<parts, trq, sparse, mfst, ref>>

Discard ==
    \E value \in Values :
        LET r == discard(root, value)
        IN  /\ root' = r.root
            /\ last' = Call("discard", value, r.raised, NoValue, 0)
            /\ present' = present \ {value}
            /\ everRemoved' = (everRemoved \/ value \in present)
            /\ UNCHANGED <<parts, trq, sparse, mfst, ref>>

Length ==
    /\ last' = Call("len", NoValue, "none", len(root), 0)
    /\ UNCHANGED <<root, present, everRemoved, parts, trq, sparse, mfst, ref>>

GetItem ==
    \E index \in Indices :
        LET r == getitem(root, index)
        IN  /\ last' = Call("getitem", index, r.raised, r.retval, 0)
            /\ UNCHANGED <<root, present, everRemoved, parts, trq, sparse, mfst, ref>>

NextValue ==
    \E value \in Values :
        LET r == next(root, value)
        IN  /\ root' = r.root
            /\ last' = Call("next", value, r.raised, r.retval, 0)
            /\ UNCHANGED <<present, everRemoved, parts, trq, sparse, mfst, ref>>

PrevValue ==
    \E value \in Values :
        LET r == prev(root, value)
        IN  /\ root' = r.root
            /\ last' = Call("prev", value, r.raised, r.retval, 0)
            /\ UNCHANGED <<present, everRemoved, parts, trq, sparse, mfst, ref>>

Next ==
    \/ Add
    \/ Contains
    \/ Remove
    \/ Discard
    \/ Length
    \/ GetItem
    \/ NextValue
    \/ PrevValue

Spec == Init /\ [][Next]_vars

\* ---- __Node.split and __Node.merge on arbitrary valid treaps ----

\* the valid treaps (search-tree order, heap order, consistent sizes) whose
\* values lie in lo..hi
RECURSIVE Treaps(_, _)
Treaps(lo, hi) ==
    IF lo > hi THEN {None}
    ELSE {None} \cup
         UNION {
            {[value |-> v, left |-> l, right |-> r, priority |-> p,
              size |-> sizeof(l) + 1 + sizeof(r)] :
                p \in {q \in Priorities : /\ l # None => q >= l.priority
                                          /\ r # None => q >= r.priority}} :
            <<v, l, r>> \in UNION {{v0} \X Treaps(lo, v0 - 1) \X Treaps(v0 + 1, hi) : v0 \in lo..hi}}

\* the sequences of n valid treaps over lo..hi in which every value of a
\* tree is smaller than every value of the next one
RECURSIVE AscendingTreaps(_, _, _)
AscendingTreaps(n, lo, hi) ==
    IF n = 1 THEN {<<t>> : t \in Treaps(lo, hi)}
    ELSE UNION {{<<t>> \o rest : t \in Treaps(lo, cut), rest \in AscendingTreaps(n - 1, cut + 1, hi)} :
                   cut \in (lo - 1)..hi}

NodeInit ==
    \E n \in 1..MaxParts :
        \E subtrees \in AscendingTreaps(n, 1, MaxValue) :
            /\ parts = subtrees
            /\ root = None
            /\ last = Call("init", NoValue, "none", NoValue, 0)
            /\ present = {} /\ everRemoved = FALSE
            /\ NoTrq /\ NoSparse /\ NoMfst /\ NoRef

\* root = __Node.merge(*parts)
NodeMerge ==
    /\ parts # <<>>
    /\ root' = merge(parts)
    /\ parts' = <<>>
    /\ last' = Call("merge", parts, "none", NoValue, 0)
    /\ UNCHANGED <<present, everRemoved, trq, sparse, mfst, ref>>

\* parts = __Node.split(root, value); root is consumed
NodeSplit ==
    /\ parts = <<>>
    /\ \E value \in Values :
           /\ parts' = split(root, value)
           /\ root' = None
           /\ last' = Call("split", <<root, value>>, "none", NoValue, 0)
    /\ UNCHANGED <<present, everRemoved, trq, sparse, mfst, ref>>

NodeNext ==
    \/ NodeMerge
    \/ NodeSplit

NodeSpec == NodeInit /\ [][NodeNext]_vars

\* ---- TreeRangeQuery: construction, item assignment, item read, query ----

TrqOps == {"add", "min", "first"}

NonEmptyArrays == UNION {[1..n -> Items] : n \in 1..MaxLen}

TrqInit ==
    \E iterable \in NonEmptyArrays, operation \in TrqOps :
        /\ trq = trq_init(iterable, operation)
        /\ ref = iterable
        /\ last = Call("init", NoValue, "none", NoValue, 0)
        /\ NoTreap /\ NoParts /\ NoSparse /\ NoMfst

\* tree[index] = value for index in -(actual_length + 1)..actual_length (the
\* two ends fail the assertion); ref follows the assignments the code carried
\* out
TrqSetItem ==
    \E index \in (0 - trq.actual_length - 1)..trq.actual_length, value \in Items :
        LET r == trq_setitem(trq, index, value)
        IN  /\ trq' = [trq EXCEPT !.a = r.a]
            /\ ref' = IF 0 <= index /\ index < Len(ref)
                      THEN [ref EXCEPT ![index + 1] = value] ELSE ref
            /\ last' = Call("setitem", <<index, value>>, r.raised, NoValue, 0)
            /\ UNCHANGED <<root, present, everRemoved, parts, sparse, mfst>>

TrqGetItem ==
    \E index \in (0 - trq.actual_length - 1)..trq.actual_length :
        LET r == trq_getitem(trq, index)
        IN  /\ last' = Call("getitem", index, r.raised, r.retval, 0)
            /\ UNCHANGED <<root, present, everRemoved, parts, trq, sparse, mfst, ref>>

TrqQuery ==
    \E query_left \in 0..trq.actual_length, query_right \in 0..trq.actual_length :
        LET r == trq_query(trq, query_left, query_right)
        IN  /\ last' = Call("query", <<query_left, query_right>>, r.raised, r.retval, 0)
            /\ UNCHANGED <<root, present, everRemoved, parts, trq, sparse, mfst, ref>>

TrqNext ==
    \/ TrqSetItem
    \/ TrqGetItem
    \/ TrqQuery

TrqSpec == TrqInit /\ [][TrqNext]_vars

\* ---- SparseTableRangeQuery: construction, item read, query ----

SparseOps == {"min", "max", "first"}

SparseInit ==
    \E iterable \in NonEmptyArrays, operation \in SparseOps :
        /\ sparse = sparse_init(iterable, operation)
        /\ ref = iterable
        /\ last = Call("init", NoValue, "none", NoValue, 0)
        /\ NoTreap /\ NoParts /\ NoTrq /\ NoMfst

SparseGetItem ==
    \E index \in 0..(sparse.actual_length - 1) :
        /\ last' = Call("getitem", index, "none", sparse_getitem(sparse, index), 0)
        /\ UNCHANGED <<root, present, everRemoved, parts, trq, sparse, mfst, ref>>

SparseQuery ==
    \E query_left \in 0..sparse.actual_length, query_right \in 0..sparse.actual_length :
        LET r == sparse_query(sparse, query_left, query_right)
        IN  /\ last' = Call("query", <<query_left, query_right>>, r.raised, r.retval, 0)
            /\ UNCHANGED <<root, present, everRemoved, parts, trq, sparse, mfst, ref>>

SparseNext ==
    \/ SparseGetItem
    \/ SparseQuery

SparseSpec == SparseInit /\ [][SparseNext]_vars

\* ---- MultidimensionalFenwickSumTree: construction, assignment, read, sum ----

Scalars == 0..MaxScalar

RECURSIVE Product(_)
Product(length) == IF length = <<>> THEN 1 ELSE length[1] * Product(Tail(length))

\* the side lengths of the tables constructed
Shapes ==
    {length \in UNION {[1..d -> 1..MaxSide] : d \in 1..MaxDim} : Product(length) <= MaxCells}

\* the well-formed nested lists with the given side lengths
RECURSIVE TablesOf(_)
TablesOf(length) ==
    IF Len(length) = 1 THEN [1..length[1] -> Scalars]
    ELSE [1..length[1] -> TablesOf(Tail(length))]

\* one integer subscript per dimension, -1 included
IntSubscripts(length) ==
    {[j \in 1..Len(length) |-> IntIndex(idx[j])] :
        idx \in {x \in [1..Len(length) -> (0 - 1)..(MaxSide - 1)] :
                    \A j \in 1..Len(length) : x[j] < length[j]}}

\* one slice [start, stop) per dimension with 0 <= start < stop <= length
SliceSubscripts(length) ==
    {[j \in 1..Len(length) |-> SliceIndex(b[j][1], b[j][2])] :
        b \in {x \in [1..Len(length) -> (0..MaxSide) \X (0..MaxSide)] :
                    \A j \in 1..Len(length) : x[j][1] < x[j][2] /\ x[j][2] <= length[j]}}

\* the cell an integer subscript tuple denotes
CellOf(length, idxs) ==
    [j \in 1..Len(idxs) |-> IF idxs[j].i < 0 THEN idxs[j].i + length[j] ELSE idxs[j].i]

MfstInit ==
    \E length \in Shapes :
        \E table \in TablesOf(length) :
            /\ mfst = mfst_init(table, length)
            /\ ref = table
            /\ last = Call("init", NoValue, "none", NoValue, 0)
            /\ NoTreap /\ NoParts /\ NoTrq /\ NoSparse

MfstSetItem ==
    \E idxs \in IntSubscripts(mfst.length), value \in Scalars :
        LET r == mfst_setitem(mfst, idxs, value)
        IN  /\ mfst' = r.self
            /\ ref' = SetCell(ref, CellOf(mfst.length, idxs), value)
            /\ last' = Call("setitem", idxs, r.raised, NoValue, 0)
            /\ UNCHANGED <<root, present, everRemoved, parts, trq, sparse>>

MfstGetItem ==
    \E idxs \in IntSubscripts(mfst.length) :
        LET r == mfst_getitem(mfst, idxs)
        IN  /\ last' = Call("getitem", idxs, r.raised, r.value, 0)
            /\ UNCHANGED <<root, present, everRemoved, parts, trq, sparse, mfst, ref>>

MfstRangeSum ==
    \E idxs \in SliceSubscripts(mfst.length) :
        LET r == mfst_range_sum(mfst, idxs)
        IN  /\ last' = Call("sum", idxs, r.raised, r.retval, 0)
            /\ UNCHANGED <<root, present, everRemoved, parts, trq, sparse, mfst, ref>>

MfstNext ==
    \/ MfstSetItem
    \/ MfstGetItem
    \/ MfstRangeSum

MfstSpec == MfstInit /\ [][MfstNext]_vars

\* ---- reference notions the properties are stated in ----

\* the ascending sequence of the elements of a finite set of integers
RECURSIVE SortedSeq(_)
SortedSeq(S) ==
    IF S = {} THEN <<>>
    ELSE LET m == CHOOSE x \in S : \A y \in S : x <= y
         IN  <<m>> \o SortedSeq(S \ {m})

\* the values actually stored in the nodes of a tree
RECURSIVE ValuesOf(_)
ValuesOf(node) ==
    IF node = None THEN {}
    ELSE ValuesOf(node.left) \cup {node.value} \cup ValuesOf(node.right)

\* the number of nodes actually linked below (and including) node
RECURSIVE CountNodes(_)
CountNodes(node) ==
    IF node = None THEN 0
    ELSE CountNodes(node.left) + 1 + CountNodes(node.right)

\* what the facade shows of the tree: the set of the values list(tree) yields
Content(r) == Range(list(r))

SetMin(S) == CHOOSE x \in S : \A y \in S : x <= y
SetMax(S) == CHOOSE x \in S : \A y \in S : x >= y

\* ---- properties ----

\* C1: as long as values were only passed to the constructor or to add
\* (duplicates included), list(tree) is the ascending sequence of the distinct
\* values inserted.
C1_SortedMaterialization ==
    ~everRemoved => list(root) = SortedSeq(present)

C1_Witness ==
    /\ ~everRemoved
    /\ last.op = "add"
    /\ last.created = 0
    /\ Len(list(root)) = MaxValue

\* C2: `v in tree` returns true exactly when v was added and has not been
\* removed or discarded since its last addition.
C2_ContainsIffPresent ==
    last.op = "contains" => (last.retval <=> last.arg \in present)

C2_Witness ==
    /\ last.op = "contains"
    /\ last.retval = FALSE
    /\ everRemoved
    /\ present # {}

\* C3: after any sequence of facade calls, failed ones included, len(tree) is
\* the number of distinct values present, 0 for the empty tree.
C3_LengthIsCount ==
    len(root) = Cardinality(present)

C3_Witness ==
    /\ last.op = "remove"
    /\ last.raised = "ValueError"
    /\ len(root) = 2

\* C4: with n >= 1 values present and -n <= k < n, tree[k] is the element at
\* position k of the ascending list of the present values, a negative k
\* meaning position n + k.
C4_IndexedAccess ==
    LET n == Cardinality(present)
        k == last.arg
    IN  (last.op = "getitem" /\ n >= 1 /\ 0 - n <= k /\ k < n) =>
            /\ last.raised = "none"
            /\ last.retval = SortedSeq(present)[(IF k < 0 THEN n + k ELSE k) + 1]

C4_Witness ==
    /\ last.op = "getitem"
    /\ last.arg = 0 - 2
    /\ last.raised = "none"
    /\ Cardinality(present) = MaxValue

\* C5: tree[k] raises IndexError whenever the tree is empty or the normalized
\* index (k, or size + k for a negative k) is outside [0, size), and the
\* failed access leaves the tree as it was.
C5_IndexOutOfRange ==
    [][LET n == Cardinality(present)
           k == last'.arg
           norm == IF k < 0 THEN n + k ELSE k
       IN  (last'.op = "getitem" /\ (n = 0 \/ ~(0 <= norm /\ norm < n))) =>
               /\ last'.raised = "IndexError"
               /\ root' = root]_vars

C5_Witness ==
    /\ last.op = "getitem"
    /\ last.raised = "IndexError"
    /\ last.arg < 0
    /\ root # None

\* C6: next(v), for v present or not, returns the smallest present value
\* strictly greater than v, and raises ValueError when there is none.
C6_NextIsSuccessor ==
    LET greater == {x \in present : x > last.arg}
    IN  last.op = "next" =>
            IF greater = {} THEN last.raised = "ValueError"
            ELSE last.raised = "none" /\ last.retval = SetMin(greater)

C6_Witness ==
    /\ last.op = "next"
    /\ last.raised = "none"
    /\ last.arg \notin present
    /\ Cardinality({x \in present : x > last.arg}) >= 2

\* C7: prev(v), for v present or not, returns the largest present value
\* strictly less than v, and raises ValueError when there is none.
C7_PrevIsPredecessor ==
    LET less == {x \in present : x < last.arg}
    IN  last.op = "prev" =>
            IF less = {} THEN last.raised = "ValueError"
            ELSE last.raised = "none" /\ last.retval = SetMax(less)

C7_Witness ==
    /\ last.op = "prev"
    /\ last.raised = "none"
    /\ last.arg \in present
    /\ Cardinality({x \in present : x < last.arg}) >= 2

\* C8: remove(v) of an absent v raises ValueError and leaves the set of
\* values unchanged; remove(v) of a present v succeeds, takes exactly v out of
\* the set and decreases the length by exactly 1.
C8_Remove ==
    [][last'.op = "remove" =>
        IF last'.arg \notin Content(root)
        THEN /\ last'.raised = "ValueError"
             /\ Content(root') = Content(root)
        ELSE /\ last'.raised = "none"
             /\ Content(root') = Content(root) \ {last'.arg}
             /\ len(root') = len(root) - 1]_vars

C8_Witness ==
    /\ last.op = "remove"
    /\ last.raised = "none"
    /\ len(root) = MaxValue - 1

\* C9: add(v) of a value already present changes neither the set nor the
\* length, creates no node and draws no priority; add(v) of an absent value
\* creates exactly one node and increases the length by exactly 1.
C9_AddIdempotent ==
    [][last'.op = "add" =>
        IF last'.arg \in Content(root)
        THEN /\ Content(root') = Content(root)
             /\ len(root') = len(root)
             /\ last'.created = 0
             /\ CountNodes(root') = CountNodes(root)
        ELSE /\ last'.created = 1
             /\ CountNodes(root') = CountNodes(root) + 1
             /\ len(root') = len(root) + 1]_vars

C9_Witness ==
    /\ last.op = "add"
    /\ last.created = 0
    /\ everRemoved
    /\ len(root) = 2

\* C10: discard(v) never raises; for a present v it takes v out of the set as
\* remove(v) does, for an absent v it leaves the set unchanged.
C10_Discard ==
    [][last'.op = "discard" =>
        /\ last'.raised = "none"
        /\ IF last'.arg \in Content(root)
           THEN /\ remove(root, last'.arg).raised = "none"
                /\ root' = remove(root, last'.arg).root
                /\ Content(root') = Content(root) \ {last'.arg}
           ELSE Content(root') = Content(root)]_vars

C10_Witness ==
    /\ last.op = "discard"
    /\ last.raised = "none"
    /\ ~everRemoved
    /\ root # None

\* op folded from left to right over the non-empty sequence of items s
RECURSIVE FoldLeft(_, _)
FoldLeft(op, s) ==
    IF Len(s) = 1 THEN s[1]
    ELSE apply(op, FoldLeft(op, SubSeq(s, 1, Len(s) - 1)), s[Len(s)])

\* C11: after any sequence of assignments tree[i] = x with 0 <= i < n, every
\* query(l, r) with 0 <= l < r <= n returns op folded from left to right over
\* the current items l .. r-1; the padding cells never contribute.
C11_TrqQueryIsFold ==
    \A l \in 0..Len(ref), r \in 0..Len(ref) :
        l < r =>
            /\ trq_query(trq, l, r).raised = "none"
            /\ trq_query(trq, l, r).retval = FoldLeft(trq.op, SubSeq(ref, l + 1, r))

C11_Witness ==
    /\ last.op = "setitem"
    /\ last.raised = "none"
    /\ last.arg = <<2, MaxItem>>
    /\ trq.actual_length = 3
    /\ trq.op = "first"
    /\ trq_query(trq, 1, 3).retval = 0

RECURSIVE SumSeq(_)
SumSeq(q) == IF q = <<>> THEN 0 ELSE Head(q) + SumSeq(Tail(q))

\* the sum of the entries of the nested list t inside the hyper-rectangle
\* given by one slice per dimension
RECURSIVE RectSum(_, _)
RectSum(t, idxs) ==
    IF idxs = <<>> THEN t
    ELSE SumSeq([k \in 1..(idxs[1].stop - idxs[1].start) |->
                    RectSum(t[idxs[1].start + k], Tail(idxs))])

\* C12: a view indexed on every dimension by a slice [s_i, e_i) with
\* 0 <= s_i < e_i <= length_i returns from sum() the sum of the current table
\* entries inside that hyper-rectangle, and a full integer index returns the
\* value last assigned to the cell.
C12_FenwickRangeSum ==
    /\ last.op = "sum" => (last.raised = "none" /\ last.retval = RectSum(ref, last.arg))
    /\ last.op = "getitem" =>
           (last.raised = "none" /\ last.retval = GetCell(ref, CellOf(mfst.length, last.arg)))

\* C13: for an associative and idempotent op, every query(l, r) with
\* 0 <= l < r <= n returns op folded over items l .. r-1 of the array, the
\* full range and the single-element ranges included.
C13_SparseQueryIsFold ==
    (last.op = "query" /\ last.arg[1] < last.arg[2]) =>
        /\ last.raised = "none"
        /\ last.retval = FoldLeft(sparse.op, SubSeq(ref, last.arg[1] + 1, last.arg[2]))

C13_Witness ==
    /\ last.op = "query"
    /\ last.arg = <<0, 3>>
    /\ sparse.actual_length = 3
    /\ sparse.op = "min"
    /\ last.retval = 1
    /\ ref[3] = 1

\* ---- the structural invariants of the treap ----

\* every value in the left subtree is smaller, every value in the right
\* subtree is greater, at every node
RECURSIVE SearchOrder(_)
SearchOrder(node) ==
    \/ node = None
    \/ /\ \A v \in ValuesOf(node.left) : v < node.value
       /\ \A v \in ValuesOf(node.right) : v > node.value
       /\ SearchOrder(node.left)
       /\ SearchOrder(node.right)

\* no child has a priority above its parent's
RECURSIVE HeapOrder(_)
HeapOrder(node) ==
    \/ node = None
    \/ /\ node.left # None => node.priority >= node.left.priority
       /\ node.right # None => node.priority >= node.right.priority
       /\ HeapOrder(node.left)
       /\ HeapOrder(node.right)

\* every cached size is size(left) + 1 + size(right), hence the number of
\* nodes of the subtree
RECURSIVE SizeConsistent(_)
SizeConsistent(node) ==
    \/ node = None
    \/ /\ node.size = sizeof(node.left) + 1 + sizeof(node.right)
       /\ node.size = CountNodes(node)
       /\ SizeConsistent(node.left)
       /\ SizeConsistent(node.right)

\* C14: between facade operations, successful or failed, every node has only
\* smaller values in its left subtree and only greater values in its right
\* subtree.
C14_SearchOrder ==
    SearchOrder(root)

C14_Witness ==
    /\ last.op = "prev"
    /\ last.raised = "ValueError"
    /\ root # None
    /\ root.left # None
    /\ root.right # None

\* C15: between facade operations, whatever priorities were drawn (equal ones
\* included), every node's priority is at least the priority of each child.
C15_HeapOrder ==
    HeapOrder(root)

C15_Witness ==
    /\ last.op = "add"
    /\ last.created = 1
    /\ root # None
    /\ root.left # None
    /\ root.left.priority = root.priority
    /\ root.left.left # None

\* C16: after any sequence of facade operations every node's cached size is
\* size(left) + 1 + size(right), the number of nodes of its subtree; so it is
\* in every tree split returns for the root and in what merge makes of them.
C16_SizeConsistency ==
    /\ SizeConsistent(root)
    /\ \A value \in Values :
           LET s == split(root, value)
           IN  /\ SizeConsistent(s[1])
               /\ SizeConsistent(s[2])
               /\ SizeConsistent(s[3])
               /\ SizeConsistent(merge(<<s[1], s[3]>>))
               /\ SizeConsistent(merge(<<s[1], s[2], s[3]>>))

C16_Witness ==
    /\ last.op = "discard"
    /\ everRemoved
    /\ root # None
    /\ root.size = 2
    /\ root.right # None

\* the nodes of a tree; a node is known by its value and priority, the values
\* of a treap being distinct
RECURSIVE NodesOf(_)
NodesOf(node) ==
    IF node = None THEN {}
    ELSE NodesOf(node.left) \cup {<<node.value, node.priority>>} \cup NodesOf(node.right)

\* the values of a tree from left to right
RECURSIVE InOrder(_)
InOrder(node) ==
    IF node = None THEN <<>>
    ELSE InOrder(node.left) \o <<node.value>> \o InOrder(node.right)

ValidTreap(node) == SearchOrder(node) /\ HeapOrder(node) /\ SizeConsistent(node)

\* C17: split(T, p) of a valid treap T returns (less, center, greater): less
\* holds exactly the nodes of T with value < p, greater exactly those with
\* value > p, center is empty or the single childless node of size 1 with
\* value p (non-empty iff p is in T); the parts are disjoint, together they are
\* T's nodes, and each part is a valid treap.
C17_SplitContract ==
    last.op = "split" =>
        LET T == last.arg[1]
            p == last.arg[2]
            less == parts[1]
            center == parts[2]
            greater == parts[3]
        IN  /\ NodesOf(less) = {n \in NodesOf(T) : n[1] < p}
            /\ NodesOf(greater) = {n \in NodesOf(T) : n[1] > p}
            /\ NodesOf(center) = {n \in NodesOf(T) : n[1] = p}
            /\ (center # None) <=> (p \in ValuesOf(T))
            /\ center # None =>
                   /\ center.value = p
                   /\ center.left = None /\ center.right = None
                   /\ center.size = 1
            /\ CountNodes(less) + CountNodes(center) + CountNodes(greater) = CountNodes(T)
            /\ ValidTreap(less) /\ ValidTreap(center) /\ ValidTreap(greater)

C17_Witness ==
    /\ last.op = "split"
    /\ CountNodes(last.arg[1]) = MaxValue
    /\ last.arg[1].value = 1
    /\ last.arg[2] = 2
    /\ parts[1] # None /\ parts[2] # None /\ parts[3] # None

\* the left-associative pairwise reduction merge(merge(T1, T2), T3) ...
RECURSIVE LeftReduce(_)
LeftReduce(subtrees) ==
    IF Len(subtrees) = 1 THEN subtrees[1]
    ELSE merge(<<LeftReduce(SubSeq(subtrees, 1, Len(subtrees) - 1)), subtrees[Len(subtrees)]>>)

RECURSIVE AllNodesOf(_)
AllNodesOf(subtrees) ==
    IF subtrees = <<>> THEN {} ELSE NodesOf(Head(subtrees)) \cup AllNodesOf(Tail(subtrees))

RECURSIVE AllInOrder(_)
AllInOrder(subtrees) ==
    IF subtrees = <<>> THEN <<>> ELSE InOrder(Head(subtrees)) \o AllInOrder(Tail(subtrees))

\* C18: merge(T1, ..., Tn) of valid treaps given in ascending order is a valid
\* treap, holds exactly the nodes of the inputs, lists the values of the
\* inputs in order one input after the other, and for n > 2 is the
\* left-associative pairwise reduction.
C18_MergeContract ==
    last.op = "merge" =>
        /\ ValidTreap(root)
        /\ NodesOf(root) = AllNodesOf(last.arg)
        /\ CountNodes(root) = Len(AllInOrder(last.arg))
        /\ InOrder(root) = AllInOrder(last.arg)
        /\ Len(last.arg) > 2 => root = LeftReduce(last.arg)

C18_Witness ==
    /\ last.op = "merge"
    /\ Len(last.arg) = 3
    /\ last.arg[1] # None /\ last.arg[2] # None /\ last.arg[3] # None
    /\ last.arg[1].priority = last.arg[3].priority
    /\ last.arg[2].priority > last.arg[1].priority
    /\ root.value = 2

\* C19: `v in tree`, for v present or absent, leaves the set of values, the
\* length and the three structural invariants as they were.
C19_ContainsReadOnly ==
    [][last'.op = "contains" =>
        /\ Content(root') = Content(root)
        /\ NodesOf(root') = NodesOf(root)
        /\ len(root') = len(root)
        /\ SearchOrder(root') /\ HeapOrder(root') /\ SizeConsistent(root')]_vars

C19_Witness ==
    /\ last.op = "contains"
    /\ last.retval = TRUE
    /\ last.arg = 2
    /\ len(root) = MaxValue
    /\ root.value # 2

\* C20: after next(v) or prev(v), whether it returned a value or raised
\* ValueError, the tree holds the same values as before (v included when
\* present) and satisfies the three structural invariants.
C20_NextPrevRestore ==
    [][(last'.op = "next" \/ last'.op = "prev") =>
        /\ Content(root') = Content(root)
        /\ NodesOf(root') = NodesOf(root)
        /\ SearchOrder(root') /\ HeapOrder(root') /\ SizeConsistent(root')]_vars

C20_Witness ==
    /\ last.op = "next"
    /\ last.raised = "ValueError"
    /\ last.arg \in Content(root)
    /\ len(root) >= 2

\* the node at the root of a tree, as the pair that identifies it
RootOf(node) == <<node.value, node.priority>>

\* C22: merge(left, right) of two non-empty trees keeps left's root as the
\* root iff left.priority > right.priority (its right child is then
\* merge(left.right, right)); otherwise, equal priorities included, the root is
\* right's root, with merge(left, right.left) as its left child and right's
\* right child untouched.
C22_MergeRootChoice ==
    (/\ last.op = "merge"
     /\ Len(last.arg) = 2
     /\ last.arg[1] # None
     /\ last.arg[2] # None) =>
        LET left == last.arg[1]
            right == last.arg[2]
        IN  /\ (RootOf(root) = RootOf(left)) <=> (left.priority > right.priority)
            /\ left.priority > right.priority =>
                   /\ root.left = left.left
                   /\ root.right = merge(<<left.right, right>>)
            /\ left.priority <= right.priority =>
                   /\ RootOf(root) = RootOf(right)
                   /\ root.left = merge(<<left, right.left>>)
                   /\ root.right = right.right

C22_Witness ==
    /\ last.op = "merge"
    /\ Len(last.arg) = 2
    /\ last.arg[1] # None
    /\ last.arg[2] # None
    /\ last.arg[1].priority = last.arg[2].priority
    /\ last.arg[2].left # None
    /\ RootOf(root) = RootOf(last.arg[2])
    /\ CountNodes(root.left) >= 2

\* C25: for 1 <= i <= n, reading tree[-i] returns the element at position
\* n - i, and assigning tree[-i] = x succeeds and leaves x at position n - i
\* with every query over a range containing that position folding x in.
C25_NegativeIndices ==
    LET n == trq.actual_length
    IN  /\ (/\ last.op = "getitem"
             /\ last.arg < 0
             /\ 0 - last.arg <= n) =>
                /\ last.raised = "none"
                /\ last.retval = ref[n + last.arg + 1]
        /\ (/\ last.op = "setitem"
             /\ last.arg[1] < 0
             /\ 0 - last.arg[1] <= n) =>
                LET pos == n + last.arg[1]
                    now == [ref EXCEPT ![pos + 1] = last.arg[2]]
                IN  /\ last.raised = "none"
                    /\ trq_getitem(trq, pos).retval = last.arg[2]
                    /\ \A l \in 0..pos, r \in (pos + 1)..n :
                           trq_query(trq, l, r).retval = FoldLeft(trq.op, SubSeq(now, l + 1, r))

\* C21: in every step of the facade, a node whose value stays in the tree is
\* still there with the priority it had; a node appears only in an add of an
\* absent value (exactly one node, carrying that value, the one constructor
\* call of the step); a node disappears only in a remove or discard that found
\* its value (exactly that node).
C21_NodeStability ==
    [][LET before == NodesOf(root)
           after == NodesOf(root')
       IN  /\ \A n \in before : n[1] \in ValuesOf(root') => n \in after
           /\ Cardinality(after \ before) = last'.created
           /\ after \ before # {} =>
                  /\ last'.op = "add"
                  /\ last'.arg \notin ValuesOf(root)
                  /\ \E q \in Priorities : after \ before = {<<last'.arg, q>>}
           /\ before \ after # {} =>
                  /\ last'.op \in {"remove", "discard"}
                  /\ last'.raised = "none"
                  /\ \E q \in Priorities : before \ after = {<<last'.arg, q>>}
           /\ Cardinality(after) = CountNodes(root')]_vars

C21_Witness ==
    /\ last.op = "remove"
    /\ last.raised = "none"
    /\ everRemoved
    /\ len(root) = MaxValue - 1
    /\ \E n \in NodesOf(root) : n[2] = MaxPriority
    /\ \E n \in NodesOf(root) : n[2] = 0

\* ---- the shape of the trees the facade builds ----

\* the sets of nodes a tree can hold: one (value, priority) pair per value
NodeSets ==
    UNION {{{<<v, f[v]>> : v \in D} : f \in [D -> Priorities]} : D \in SUBSET Values}

\* the node of S of highest priority, the largest value among equal priorities
TopOf(S) ==
    CHOOSE n \in S : \A m \in S : m[2] < n[2] \/ (m[2] = n[2] /\ m[1] <= n[1])

\* the treap over the nodes S in which every subtree is rooted at its TopOf
RECURSIVE TreapOf(_)
TreapOf(S) ==
    IF S = {} THEN None
    ELSE LET top == TopOf(S)
         IN  [value |-> top[1],
              left |-> TreapOf({m \in S : m[1] < top[1]}),
              right |-> TreapOf({m \in S : m[1] > top[1]}),
              priority |-> top[2],
              size |-> Cardinality(S)]

FacadeTrees == {TreapOf(S) : S \in NodeSets}

\* C23 as stated: among the trees the facade can hold there is one, and a
\* value v, for which the tree after `v in tree` is not the tree before it.
C23_ShapeMayDiffer ==
    \E t \in FacadeTrees : \E v \in Values : contains(t, v).root # t

\* C23 amended: every tree the facade reaches is one of FacadeTrees, and
\* `v in tree` leaves it exactly as it was, link for link, for every v, equal
\* priorities included.
C23_ContainsKeepsShape ==
    /\ root \in FacadeTrees
    /\ \A v \in Values : contains(root, v).root = root

C23_Witness ==
    /\ last.op = "contains"
    /\ last.retval = TRUE
    /\ len(root) = MaxValue
    /\ \A n \in NodesOf(root) : n[2] = root.priority
    /\ last.arg # root.value
    /\ everRemoved

\* no two nodes of the tree have the same priority
DistinctPriorities(node) ==
    \A n \in NodesOf(node), m \in NodesOf(node) : n[2] = m[2] => n = m

\* C24: in a tree whose priorities are pairwise distinct, split at any v
\* followed by merge of the three parts gives back the same tree, so
\* contains(v), next(v) and prev(v) leave every link as it was; and the tree
\* is the one determined by the set of its (value, priority) pairs, whatever
\* sequence of operations led to it.
C24_ShapeDeterminedByNodes ==
    DistinctPriorities(root) =>
        /\ \A v \in Values :
               /\ merge(split(root, v)) = root
               /\ contains(root, v).root = root
               /\ next(root, v).root = root
               /\ prev(root, v).root = root
        /\ root = TreapOf(NodesOf(root))

C24_Witness ==
    /\ last.op = "prev"
    /\ last.raised = "none"
    /\ DistinctPriorities(root)
    /\ len(root) = MaxValue
    /\ root.value = 2
    /\ last.arg = MaxValue
    /\ last.retval = 2
    /\ everRemoved
====
